---------------------------- MODULE Spec2Model ----------------------------
(***************************************************************************)
(* Model of analysis/google_batch/gcs_job_scheduler_patch.py: the bulk GCS *)
(* inventory cache that is spliced into Snakemake's _IOFile.exists/size,   *)
(* async_run and JobScheduler.job_selector.                                *)
(*                                                                         *)
(* Strings are modelled as sequences of tokens, so that an f-string is a   *)
(* concatenation and `x in str` is a search for a token.                   *)
(***************************************************************************)
EXTENDS Integers, Sequences, FiniteSets, TLC

(***************************************************************************)
(* Bounds of the model.                                                    *)
(***************************************************************************)
\* Number of distinct objects the bucket listing may yield.
MaxObjects == 2
\* Number of exists/size queries in a behaviour.
MaxQueries == 2
\* Number of calls of the patched async_run / job_selector in a behaviour.
MaxCalls == 2
\* Largest elapsed wall-clock time (whole seconds) of an inventory run.
MaxElapsed == 1
\* Number of threads calling the wrappers concurrently (SpecConc).
NumThreads == 2
\* Number of blobs a listing yields to a thread (SpecConc).
MaxConcObjects == 1

(***************************************************************************)
(* Configuration (module level).                                           *)
(***************************************************************************)
GCS_BUCKET == "scale1"

GCS_PREFIX == "qinling/"

\* None, as the value of an absent timestamp: timestamps are sets of at most
\* one number of seconds.
None == {}

(***************************************************************************)
(* The remote store, as the listing sees it.                               *)
(***************************************************************************)
\* blob.name of object i: list_blobs(prefix=GCS_PREFIX) yields names under
\* the prefix.
BlobName(i) == <<GCS_PREFIX, "a/", ToString(i), ".txt">>

\* Object i as the listing reports it: object 1 is empty and the backend
\* reports no update time for it, the others have a size and an update time.
Blob(i) ==
    IF i = 1
    THEN [ name |-> BlobName(i), size |-> 0, updated |-> None ]
    ELSE [ name |-> BlobName(i), size |-> 10 * i, updated |-> {1000 + i} ]

Blobs == { Blob(i) : i \in 1..MaxObjects }

\* blob.updated.timestamp(): seconds since the epoch of a datetime.
Timestamp(updated) == CHOOSE t \in updated : TRUE

\* What iterating bucket.list_blobs() does: it yields blobs of distinct
\* names, in any order, and then ends or raises (raises with no blob yielded
\* covers a failure of storage.Client() or of the first page).
Listings ==
    { [blobs |-> s, fails |-> f] :
        s \in { q \in UNION { [1..n -> Blobs] : n \in 0..MaxObjects } :
                  \A i, j \in DOMAIN q : i # j => q[i].name # q[j].name },
        f \in BOOLEAN }

(***************************************************************************)
(* Path formats (lines 83-85) and the paths the scheduler asks about.      *)
(***************************************************************************)
GcsUri(name) == <<"gs://", GCS_BUCKET, "/">> \o name

SnakemakePath(name) == <<".snakemake/storage/gcs/", GCS_BUCKET, "/">> \o name

LocalPath(name) ==
    <<"/mnt/data/blainey/qinling-analysis/gcs/", GCS_BUCKET, "/">> \o name

KeyForms(name) == { GcsUri(name), SnakemakePath(name), LocalPath(name) }

\* str(self) of the _IOFile queried: any of the three formats, of the empty
\* object, of another listable object or of one the listing never yields, or
\* a bare object name.
QueryNames == { BlobName(1), BlobName(2), BlobName(MaxObjects + 1) }

QueryPaths == UNION { KeyForms(n) : n \in QueryNames } \cup { BlobName(1) }

(***************************************************************************)
(* bulk_inventory_gcs                                                      *)
(***************************************************************************)
EmptyCache == << >>

FileInfo(blob) ==
    [ exists |-> TRUE,
      size   |-> blob.size,
      mtime  |-> IF blob.updated # {} THEN {Timestamp(blob.updated)} ELSE None ]

\* StoreBlob with the local mount path left out.
StoreBlob_TwoForms(cache, blob) ==
    LET file_info == FileInfo(blob)
    IN  (SnakemakePath(blob.name) :> file_info)
        @@ (GcsUri(blob.name) :> file_info)
        @@ cache

\* One iteration of the loop body: the three keys are set to one file_info.
StoreBlob(cache, blob) ==
    LET file_info == FileInfo(blob)
    IN  (LocalPath(blob.name) :> file_info)
        @@ (SnakemakePath(blob.name) :> file_info)
        @@ (GcsUri(blob.name) :> file_info)
        @@ cache

RECURSIVE IterateBlobs(_, _)
\* The local `cache` after the for loop has run over `blobs`.
IterateBlobs(cache, blobs) ==
    IF blobs = << >> THEN cache
    ELSE IterateBlobs(StoreBlob(cache, Head(blobs)), Tail(blobs))

InitialStats ==
    [ inventory_calls |-> 0, files_cached |-> 0, cache_hits |-> 0,
      cache_misses |-> 0, inventory_time |-> 0 ]

\* bulk_inventory_gcs without its except clause.
bulk_inventory_gcs_NoCatch(stats, listing, elapsed) ==
    IF listing.fails
    THEN [ cache |-> EmptyCache, stats |-> stats, raised |-> TRUE ]
    ELSE [ cache  |-> IterateBlobs(EmptyCache, listing.blobs),
           stats  |-> [ stats EXCEPT !.inventory_calls = @ + 1,
                                    !.files_cached = Len(listing.blobs),
                                    !.inventory_time = elapsed ],
           raised |-> FALSE ]

\* bulk_inventory_gcs whose except clause returns what was cached so far.
bulk_inventory_gcs_PartialOnFailure(stats, listing, elapsed) ==
    IF listing.fails
    THEN [ cache |-> IterateBlobs(EmptyCache, listing.blobs),
           stats |-> stats, raised |-> FALSE ]
    ELSE [ cache  |-> IterateBlobs(EmptyCache, listing.blobs),
           stats  |-> [ stats EXCEPT !.inventory_calls = @ + 1,
                                    !.files_cached = Len(listing.blobs),
                                    !.inventory_time = elapsed ],
           raised |-> FALSE ]

\* The result of one call: the returned dictionary, the statistics after the
\* call, and whether an exception left the function.
bulk_inventory_gcs(stats, listing, elapsed) ==
    LET cache == IterateBlobs(EmptyCache, listing.blobs)
        count == Len(listing.blobs)
    IN  IF listing.fails
        THEN [ cache |-> EmptyCache, stats |-> stats, raised |-> FALSE ]
        ELSE [ cache  |-> cache,
               stats  |-> [ stats EXCEPT !.inventory_calls = @ + 1,
                                        !.files_cached = count,
                                        !.inventory_time = elapsed ],
               raised |-> FALSE ]


(***************************************************************************)
(* Outcomes of a query and of the original (per-file) methods.             *)
(***************************************************************************)
\* A returned boolean, a returned size, or a raised exception.
BoolValue(b) == [ raised |-> FALSE, b |-> b, n |-> 0 ]

SizeValue(n) == [ raised |-> FALSE, b |-> FALSE, n |-> n ]

Raises == [ raised |-> TRUE, b |-> FALSE, n |-> 0 ]

\* Another exception than Raises (n tells the exceptions apart).
RaisesOther == [ raised |-> TRUE, b |-> FALSE, n |-> 1 ]

\* What await _original_iofile_exists(self) may do.
OriginalExistsOutcomes ==
    { BoolValue(TRUE), BoolValue(FALSE), Raises, RaisesOther }

\* What await _original_iofile_size(self) may do.
OriginalSizeOutcomes == { SizeValue(0), SizeValue(7), Raises, RaisesOther }

(***************************************************************************)
(* The module's global state, as the functions see it: a record            *)
(* [bulk_cache, cache_stats, inventory_done].                              *)
(***************************************************************************)
\* patched_iofile_exists that awaits the original method on a hit too.
patched_iofile_exists_AlwaysOriginal(g, path_str, original) ==
    IF path_str \in DOMAIN g.bulk_cache
    THEN [ g |-> [ g EXCEPT !.cache_stats.cache_hits = @ + 1 ],
           result |-> original,
           fallback |-> << original >> ]
    ELSE [ g |-> [ g EXCEPT !.cache_stats.cache_misses = @ + 1 ],
           result |-> original,
           fallback |-> << original >> ]

\* patched_iofile_exists that stores what the original method returned.
patched_iofile_exists_WriteBack(g, path_str, original) ==
    IF path_str \in DOMAIN g.bulk_cache
    THEN [ g |-> [ g EXCEPT !.cache_stats.cache_hits = @ + 1 ],
           result |-> BoolValue(g.bulk_cache[path_str].exists),
           fallback |-> << >> ]
    ELSE [ g |-> [ g EXCEPT
                     !.cache_stats.cache_misses = @ + 1,
                     !.bulk_cache =
                        IF original.raised THEN @
                        ELSE (path_str :> [ exists |-> original.b, size |-> 0,
                                            mtime |-> None ]) @@ @ ],
           result |-> original,
           fallback |-> << original >> ]

\* patched_iofile_exists that marks the inventory done when it finds it not
\* done, as a lazily populating cache would.
patched_iofile_exists_AutoInventory(g, path_str, original) ==
    IF path_str \in DOMAIN g.bulk_cache
    THEN [ g |-> [ g EXCEPT !.cache_stats.cache_hits = @ + 1 ],
           result |-> BoolValue(g.bulk_cache[path_str].exists),
           fallback |-> << >> ]
    ELSE [ g |-> [ g EXCEPT !.cache_stats.cache_misses = @ + 1,
                            !.inventory_done = TRUE ],
           result |-> original,
           fallback |-> << original >> ]

\* patched_iofile_exists: the globals after the call, the outcome, and the
\* outcomes of the calls of the original method it made (none or one).
patched_iofile_exists(g, path_str, original) ==
    IF path_str \in DOMAIN g.bulk_cache
    THEN [ g |-> [ g EXCEPT !.cache_stats.cache_hits = @ + 1 ],
           result |-> BoolValue(g.bulk_cache[path_str].exists),
           fallback |-> << >> ]
    ELSE [ g |-> [ g EXCEPT !.cache_stats.cache_misses = @ + 1 ],
           result |-> original,
           fallback |-> << original >> ]

\* patched_iofile_size that catches what the original method raises and
\* raises an exception of its own.
patched_iofile_size_ReplacesError(g, path_str, original) ==
    IF path_str \in DOMAIN g.bulk_cache
    THEN [ g |-> g,
           result |-> SizeValue(g.bulk_cache[path_str].size),
           fallback |-> << >> ]
    ELSE [ g |-> g,
           result |-> IF original.raised THEN Raises ELSE original,
           fallback |-> << original >> ]

\* patched_iofile_size: as above; the statistics are not touched.
patched_iofile_size(g, path_str, original) ==
    IF path_str \in DOMAIN g.bulk_cache
    THEN [ g |-> g,
           result |-> SizeValue(g.bulk_cache[path_str].size),
           fallback |-> << >> ]
    ELSE [ g |-> g,
           result |-> original,
           fallback |-> << original >> ]

(***************************************************************************)
(* The wrappers of async_run and job_selector.                             *)
(***************************************************************************)
\* str(coroutine) of the coroutines async_run is called with.
CoroutineStr(qualname) == <<"<coroutine object ">> \o qualname \o <<" at 0x..>">>

Coroutines ==
    { <<"JobScheduler.", "update_input_sizes">>,
      <<"Workflow.", "update_input_sizes", "_report">>,
      <<"DAG.", "postprocess">> }

\* 'update_input_sizes' in str(coroutine)
DetectsUpdateInputSizes(coroutine) ==
    \E i \in DOMAIN CoroutineStr(coroutine) :
        CoroutineStr(coroutine)[i] = "update_input_sizes"

\* _bulk_cache = bulk_inventory_gcs(); _inventory_done = True
\* (an exception leaving bulk_inventory_gcs would leave both unassigned).
DoBulkInventory(g, listing, elapsed) ==
    LET r == bulk_inventory_gcs(g.cache_stats, listing, elapsed)
    IN  IF r.raised
        THEN [ g |-> [ g EXCEPT !.cache_stats = r.stats ],
               listed |-> 1, escaped |-> TRUE ]
        ELSE [ g |-> [ bulk_cache |-> r.cache, cache_stats |-> r.stats,
                       inventory_done |-> TRUE ],
               listed |-> 1, escaped |-> FALSE ]

\* InventoryUnlessDone without the test of _inventory_done.
InventoryUnlessDone_NoTest(g, listing, elapsed) ==
    DoBulkInventory(g, listing, elapsed)

\* if not _inventory_done: ... else: "Using existing cache"
InventoryUnlessDone(g, listing, elapsed) ==
    IF ~g.inventory_done
    THEN DoBulkInventory(g, listing, elapsed)
    ELSE [ g |-> g, listed |-> 0, escaped |-> FALSE ]

\* patched_async_run that goes to the original without the inventory.
patched_async_run_NoInventory(g, coroutine, listing, elapsed) ==
    [ g |-> g, listed |-> 0, escaped |-> FALSE ]

\* patched_async_run up to the call of original_async_run.
patched_async_run(g, coroutine, listing, elapsed) ==
    IF DetectsUpdateInputSizes(coroutine)
    THEN InventoryUnlessDone(g, listing, elapsed)
    ELSE [ g |-> g, listed |-> 0, escaped |-> FALSE ]

\* early_inventory_job_selector up to the call of original_job_selector.
early_inventory_job_selector(g, listing, elapsed) ==
    InventoryUnlessDone(g, listing, elapsed)

\* What original_async_run(coroutine) / original_job_selector(self, jobs)
\* does: it returns a value or raises.
ResultValue(v) == [ raised |-> FALSE, b |-> FALSE, n |-> v ]

OriginalCallOutcomes == { ResultValue(1), Raises }

\* An exception that left the inventory step of a wrapper.
InventoryError == [ raised |-> TRUE, b |-> FALSE, n |-> 2 ]

\* The `jobs` argument of job_selector.
Jobs == << "jobs" >>

\* CallOriginal with a second call of the original.
CallOriginal_Twice(r, args, original) ==
    IF r.escaped
    THEN [ calls |-> << >>, args |-> << >>, result |-> InventoryError ]
    ELSE [ calls |-> << original, original >>, args |-> args,
           result |-> original ]

\* return original_async_run(coroutine)
\* result = original_job_selector(self, jobs); ...; return result
\* The statement is reached unless an exception left the inventory step `r`.
CallOriginal(r, args, original) ==
    IF r.escaped
    THEN [ calls |-> << >>, args |-> << >>, result |-> InventoryError ]
    ELSE [ calls |-> << original >>, args |-> args, result |-> original ]

\* print_statistics, the exit handler: whether it prints the report, and the
\* hit and miss counts the report shows.
print_statistics(stats) ==
    IF stats.inventory_calls = 0
    THEN [ printed |-> FALSE, shown |-> << >> ]
    ELSE [ printed |-> TRUE,
           shown |-> << stats.cache_hits, stats.cache_misses >> ]

(***************************************************************************)
(* State.                                                                  *)
(***************************************************************************)
VARIABLES
    host,            \* the importing process: "loading", "running", "exited"
    PATCH_DISABLED,  \* GCS_JOB_SCHEDULER_PATCH_DISABLE == '1'
    config_valid,    \* GCS_BUCKET and GCS_PREFIX name a bucket that can be listed
    bulk_cache,      \* _bulk_cache
    cache_stats,     \* _cache_stats
    inventory_done,  \* _inventory_done
    list_calls,      \* listings the store has been asked for
    list_failures,   \* listings that raised
    installed_blobs, \* the blobs of the listing the snapshot was built from
    n_calls,         \* calls of the wrappers so far
    triggers,        \* calls of the wrappers that reached the inventory check
    q_found,         \* queries whose path was in the snapshot
    q_missing,       \* queries whose path was not in the snapshot
    last,            \* what the last call did
    pc,              \* per thread: where it is in a wrapper (SpecConc)
    local            \* per thread: its local variables (SpecConc)

vars == << host, PATCH_DISABLED, config_valid, bulk_cache, cache_stats, inventory_done,
           list_calls, list_failures, installed_blobs, n_calls, triggers,
           q_found, q_missing, last, pc, local >>

threadVars == << pc, local >>

\* What the environment of the process sets.
envVars == << PATCH_DISABLED, config_valid >>

queryCounters == << q_found, q_missing >>

callCounters ==
    << list_calls, list_failures, installed_blobs, n_calls, triggers >>

Threads == 1..NumThreads

\* The module globals as one record.
Globals ==
    [ bulk_cache |-> bulk_cache, cache_stats |-> cache_stats,
      inventory_done |-> inventory_done ]

SetGlobals(g) ==
    /\ bulk_cache' = g.bulk_cache
    /\ cache_stats' = g.cache_stats
    /\ inventory_done' = g.inventory_done

NoCall ==
    [ op |-> "none", path |-> << >>, coroutine |-> << >>,
      result |-> BoolValue(FALSE), fallback |-> << >>,
      was_done |-> FALSE, listed |-> 0, iterated |-> 0, failed |-> FALSE,
      escaped |-> FALSE, orig |-> 0, orig_args |-> << >> ]

NoLocal ==
    [ op |-> "none", coroutine |-> << >>, detected |-> FALSE,
      result |-> EmptyCache, blobs |-> {}, listed |-> 0, failed |-> FALSE,
      path |-> << >>, counter |-> "none", read |-> 0 ]

\* The blobs a listing yielded.
BlobsOf(listing) == { listing.blobs[i] : i \in DOMAIN listing.blobs }

\* The interpreter before the module is imported; lines 41-52 give the
\* globals their first values.
Init ==
    /\ host = "loading"
    /\ PATCH_DISABLED \in BOOLEAN
    /\ config_valid \in BOOLEAN
    /\ bulk_cache = EmptyCache
    /\ cache_stats = InitialStats
    /\ inventory_done = FALSE
    /\ list_calls = 0
    /\ list_failures = 0
    /\ installed_blobs = {}
    /\ n_calls = 0
    /\ triggers = 0
    /\ q_found = 0
    /\ q_missing = 0
    /\ last = NoCall
    /\ pc = [ t \in Threads |-> "idle" ]
    /\ local = [ t \in Threads |-> NoLocal ]

(***************************************************************************)
(* Operations, each one whole call.                                        *)
(***************************************************************************)
\* import of the module: sys.exit(0) when disabled, else apply_patch().
\* GCS_BUCKET and GCS_PREFIX are read from the environment and not examined.
ImportModule ==
    /\ host = "loading"
    /\ host' = IF PATCH_DISABLED THEN "exited" ELSE "running"
    /\ last' = [ NoCall EXCEPT !.op = "import" ]
    /\ UNCHANGED << envVars, bulk_cache, cache_stats, inventory_done,
                    callCounters, queryCounters, threadVars >>

\* The bookkeeping of a wrapper call whose inventory step did `r` and whose
\* call of the original did `ret`.
WrapperCalled(op, coroutine, detected, listing, r, ret) ==
    /\ SetGlobals(r.g)
    /\ list_calls' = list_calls + r.listed
    /\ list_failures' =
         list_failures + (IF r.listed = 1 /\ listing.fails THEN 1 ELSE 0)
    /\ installed_blobs' =
         IF r.listed = 1 /\ ~r.escaped
         THEN (IF listing.fails THEN {} ELSE BlobsOf(listing))
         ELSE installed_blobs
    /\ n_calls' = n_calls + 1
    /\ triggers' = triggers + (IF detected THEN 1 ELSE 0)
    /\ last' = [ NoCall EXCEPT !.op = op, !.coroutine = coroutine,
                               !.was_done = inventory_done,
                               !.listed = r.listed,
                               !.iterated = r.listed * Len(listing.blobs),
                               !.failed = (r.listed = 1 /\ listing.fails),
                               !.escaped = r.escaped,
                               !.orig = Len(ret.calls),
                               !.orig_args = ret.args,
                               !.fallback = ret.calls,
                               !.result = ret.result ]

\* snakemake.common.async_run(coroutine), patched.
CallAsyncRun(coroutine, listing, elapsed, original) ==
    /\ host = "running"
    /\ n_calls < MaxCalls
    /\ LET r == patched_async_run(Globals, coroutine, listing, elapsed)
       IN  WrapperCalled("async_run", coroutine,
                         DetectsUpdateInputSizes(coroutine), listing,
                         r, CallOriginal(r, coroutine, original))
    /\ UNCHANGED << host, envVars, queryCounters, threadVars >>

\* JobScheduler.job_selector(jobs), patched.
CallJobSelector(listing, elapsed, original) ==
    /\ host = "running"
    /\ n_calls < MaxCalls
    /\ LET r == early_inventory_job_selector(Globals, listing, elapsed)
       IN  WrapperCalled("job_selector", Jobs, TRUE, listing,
                         r, CallOriginal(r, Jobs, original))
    /\ UNCHANGED << host, envVars, queryCounters, threadVars >>

\* The bookkeeping of a query that did `r`.
Queried(op, path_str, r) ==
    /\ SetGlobals(r.g)
    /\ q_found' = q_found + (IF path_str \in DOMAIN bulk_cache THEN 1 ELSE 0)
    /\ q_missing' = q_missing + (IF path_str \in DOMAIN bulk_cache THEN 0 ELSE 1)
    /\ last' = [ NoCall EXCEPT !.op = op, !.path = path_str,
                               !.was_done = inventory_done,
                               !.result = r.result,
                               !.fallback = r.fallback,
                               !.escaped = r.result.raised ]

\* await _IOFile.exists(), patched.
CallExists(path_str, original) ==
    /\ host = "running"
    /\ q_found + q_missing < MaxQueries
    /\ Queried("exists", path_str,
               patched_iofile_exists(Globals, path_str, original))
    /\ UNCHANGED << host, envVars, callCounters, threadVars >>

\* await _IOFile.size(), patched.
CallSize(path_str, original) ==
    /\ host = "running"
    /\ q_found + q_missing < MaxQueries
    /\ Queried("size", path_str,
               patched_iofile_size(Globals, path_str, original))
    /\ UNCHANGED << host, envVars, callCounters, threadVars >>

ElapsedTimes == 1..MaxElapsed

\* The store is asked for a listing only by a call that finds the inventory
\* not done; for any other call there is no listing to choose.
NoListing == [ blobs |-> << >>, fails |-> FALSE ]

\* With a bucket or prefix that cannot be listed the client raises before
\* it yields a blob.
FailedAtOnce == [ blobs |-> << >>, fails |-> TRUE ]

ListingsOf(listings) == IF config_valid THEN listings ELSE { FailedAtOnce }

ListingsSeen(detected) ==
    IF detected /\ ~inventory_done THEN ListingsOf(Listings) ELSE { NoListing }

\* The clock is read at the end of a listing that did not fail.
ElapsedSeen(detected, listing) ==
    IF detected /\ ~inventory_done /\ ~listing.fails
    THEN ElapsedTimes ELSE { 1 }

\* The original method is awaited only for a path that is not in the
\* snapshot; for any other query there is no outcome to choose.
OutcomesSeen(path_str, outcomes) ==
    IF path_str \in DOMAIN bulk_cache THEN { Raises } ELSE outcomes

Next ==
    \/ ImportModule
    \/ \E c \in Coroutines :
         \E l \in ListingsSeen(DetectsUpdateInputSizes(c)) :
           \E e \in ElapsedSeen(DetectsUpdateInputSizes(c), l) :
              \E o \in OriginalCallOutcomes : CallAsyncRun(c, l, e, o)
    \/ \E l \in ListingsSeen(TRUE) :
         \E e \in ElapsedSeen(TRUE, l) :
            \E o \in OriginalCallOutcomes : CallJobSelector(l, e, o)
    \/ \E p \in QueryPaths :
         \E o \in OutcomesSeen(p, OriginalExistsOutcomes) : CallExists(p, o)
    \/ \E p \in QueryPaths :
         \E o \in OutcomesSeen(p, OriginalSizeOutcomes) : CallSize(p, o)

Spec == Init /\ [][Next]_vars

(***************************************************************************)
(* The wrappers called from several threads.  Neither wrapper takes a lock, *)
(* and bulk_inventory_gcs blocks on the network, so another thread may run *)
(* between the test of _inventory_done, the listing and the two            *)
(* assignments.                                                            *)
(***************************************************************************)
\* The listings the threads are given: those of at most MaxConcObjects blobs.
ConcListings == { l \in Listings : Len(l.blobs) <= MaxConcObjects }

\* Thread t enters a wrapper and runs it up to `if not _inventory_done`.
\* Idle threads are alike, so the one of lowest number is the one to enter.
T_Enter(t, op, coroutine, detected) ==
    /\ host = "running"
    /\ pc[t] = "idle"
    /\ \A u \in Threads : u < t => pc[u] # "idle"
    /\ n_calls < MaxCalls
    /\ n_calls' = n_calls + 1
    /\ triggers' = triggers + (IF detected THEN 1 ELSE 0)
    /\ pc' = [ pc EXCEPT ![t] =
                 IF detected /\ ~inventory_done THEN "inventory" ELSE "original" ]
    /\ local' = [ local EXCEPT ![t] =
                    [ NoLocal EXCEPT !.op = op, !.coroutine = coroutine,
                                     !.detected = detected ] ]
    /\ UNCHANGED << host, envVars, bulk_cache, cache_stats,
                    inventory_done, list_calls, list_failures,
                    installed_blobs, queryCounters, last >>

T_EnterAsyncRun(t, coroutine) ==
    T_Enter(t, "async_run", coroutine, DetectsUpdateInputSizes(coroutine))

T_EnterJobSelector(t) ==
    T_Enter(t, "job_selector", Jobs, TRUE)

\* Thread t runs bulk_inventory_gcs(); the returned dictionary is not yet
\* assigned.
T_BulkInventory(t, listing, elapsed) ==
    /\ pc[t] = "inventory"
    /\ LET r == bulk_inventory_gcs(cache_stats, listing, elapsed)
       IN  /\ cache_stats' = r.stats
           /\ local' = [ local EXCEPT ![t].result = r.cache,
                                      ![t].blobs =
                                          IF listing.fails THEN {}
                                          ELSE BlobsOf(listing),
                                      ![t].listed = 1,
                                      ![t].failed = listing.fails ]
           /\ pc' = [ pc EXCEPT ![t] = IF r.raised THEN "idle" ELSE "assign" ]
    /\ list_calls' = list_calls + 1
    /\ list_failures' = list_failures + (IF listing.fails THEN 1 ELSE 0)
    /\ UNCHANGED << host, envVars, bulk_cache, inventory_done,
                    installed_blobs, n_calls, triggers, queryCounters, last >>

\* _bulk_cache = <the returned dictionary>
T_AssignCache(t) ==
    /\ pc[t] = "assign"
    /\ bulk_cache' = local[t].result
    /\ installed_blobs' = local[t].blobs
    /\ pc' = [ pc EXCEPT ![t] = "set_done" ]
    /\ UNCHANGED << host, envVars, cache_stats, inventory_done,
                    list_calls, list_failures, n_calls, triggers,
                    queryCounters, last, local >>

\* _inventory_done = True
T_SetDone(t) ==
    /\ pc[t] = "set_done"
    /\ inventory_done' = TRUE
    /\ pc' = [ pc EXCEPT ![t] = "original" ]
    /\ UNCHANGED << host, envVars, bulk_cache, cache_stats,
                    callCounters, queryCounters, last, local >>

\* Thread t calls the original async_run / job_selector and returns.
T_Original(t, original) ==
    /\ pc[t] = "original"
    /\ LET ret == CallOriginal([ escaped |-> FALSE ], local[t].coroutine,
                               original)
       IN  last' = [ NoCall EXCEPT !.op = local[t].op,
                                   !.coroutine = local[t].coroutine,
                                   !.was_done = inventory_done,
                                   !.listed = local[t].listed,
                                   !.failed = local[t].failed,
                                   !.orig = Len(ret.calls),
                                   !.orig_args = ret.args,
                                   !.fallback = ret.calls,
                                   !.result = ret.result ]
    /\ pc' = [ pc EXCEPT ![t] = "idle" ]
    /\ local' = [ local EXCEPT ![t] = NoLocal ]
    /\ UNCHANGED << host, envVars, bulk_cache, cache_stats,
                    inventory_done, callCounters, queryCounters >>

NextConc ==
    \/ ImportModule
    \/ \E t \in Threads, c \in Coroutines : T_EnterAsyncRun(t, c)
    \/ \E t \in Threads : T_EnterJobSelector(t)
    \/ \E t \in Threads, l \in ListingsOf(ConcListings) :
         \E e \in (IF l.fails THEN { 1 } ELSE ElapsedTimes) :
            T_BulkInventory(t, l, e)
    \/ \E t \in Threads : T_AssignCache(t)
    \/ \E t \in Threads : T_SetDone(t)
    \/ \E t \in Threads, o \in OriginalCallOutcomes : T_Original(t, o)

SpecConc == Init /\ [][NextConc]_vars

(***************************************************************************)
(* exists() awaited from several threads, beside the wrappers.  The        *)
(* statement _cache_stats[key] += 1 is a load of the entry, an addition    *)
(* and a store of the entry, and no lock is held around it, so another     *)
(* thread may run between the load and the store.                          *)
(***************************************************************************)
\* The paths the threads ask about: one the listing can yield and one it
\* never yields.
LookupPaths == { GcsUri(BlobName(1)), GcsUri(BlobName(MaxObjects + 1)) }

\* Thread t enters patched_iofile_exists: path_str = str(self), the test
\* `path_str in _bulk_cache`, and the load of the counter that `+= 1` is
\* about to replace.
L_Begin(t, path_str) ==
    /\ host = "running"
    /\ pc[t] = "idle"
    /\ \A u \in Threads : u < t => pc[u] # "idle"
    /\ q_found + q_missing < MaxQueries
    /\ LET hit == path_str \in DOMAIN bulk_cache
           counter == IF hit THEN "cache_hits" ELSE "cache_misses"
       IN  /\ q_found' = q_found + (IF hit THEN 1 ELSE 0)
           /\ q_missing' = q_missing + (IF hit THEN 0 ELSE 1)
           /\ pc' = [ pc EXCEPT ![t] = "add_one" ]
           /\ local' = [ local EXCEPT ![t] =
                           [ NoLocal EXCEPT !.op = "exists",
                                            !.path = path_str,
                                            !.counter = counter,
                                            !.read = cache_stats[counter] ] ]
    /\ UNCHANGED << host, envVars, bulk_cache, cache_stats, inventory_done,
                    callCounters, last >>

\* The store of `+= 1`: the entry becomes the value loaded, plus one.  After
\* a hit the cached 'exists' is returned at once.
L_AddOne(t) ==
    /\ pc[t] = "add_one"
    /\ cache_stats' =
         [ cache_stats EXCEPT ![local[t].counter] = local[t].read + 1 ]
    /\ IF local[t].counter = "cache_hits"
       THEN /\ last' = [ NoCall EXCEPT
                           !.op = "exists", !.path = local[t].path,
                           !.was_done = inventory_done,
                           !.result =
                              IF local[t].path \in DOMAIN bulk_cache
                              THEN BoolValue(bulk_cache[local[t].path].exists)
                              ELSE Raises ]
            /\ pc' = [ pc EXCEPT ![t] = "idle" ]
            /\ local' = [ local EXCEPT ![t] = NoLocal ]
       ELSE /\ pc' = [ pc EXCEPT ![t] = "await_original" ]
            /\ UNCHANGED << last, local >>
    /\ UNCHANGED << host, envVars, bulk_cache, inventory_done,
                    callCounters, queryCounters >>

\* return await _original_iofile_exists(self)
L_AwaitOriginal(t, original) ==
    /\ pc[t] = "await_original"
    /\ last' = [ NoCall EXCEPT !.op = "exists", !.path = local[t].path,
                               !.was_done = inventory_done,
                               !.result = original,
                               !.fallback = << original >>,
                               !.escaped = original.raised ]
    /\ pc' = [ pc EXCEPT ![t] = "idle" ]
    /\ local' = [ local EXCEPT ![t] = NoLocal ]
    /\ UNCHANGED << host, envVars, bulk_cache, cache_stats, inventory_done,
                    callCounters, queryCounters >>

NextLookups ==
    \/ ImportModule
    \/ \E t \in Threads : T_EnterJobSelector(t)
    \/ \E t \in Threads, l \in ListingsOf(ConcListings) :
         T_BulkInventory(t, l, 1)
    \/ \E t \in Threads : T_AssignCache(t)
    \/ \E t \in Threads : T_SetDone(t)
    \/ \E t \in Threads : T_Original(t, ResultValue(1))
    \/ \E t \in Threads, p \in LookupPaths : L_Begin(t, p)
    \/ \E t \in Threads : L_AddOne(t)
    \/ \E t \in Threads, o \in OriginalExistsOutcomes : L_AwaitOriginal(t, o)

SpecLookups == Init /\ [][NextLookups]_vars

(***************************************************************************)
(* Properties.                                                             *)
(***************************************************************************)
WrapperOps == { "async_run", "job_selector" }

QueryOps == { "exists", "size" }

\* A step that is one exists or size query.
IsQueryStep == q_found' + q_missing' = q_found + q_missing + 1

\* A step that is one call of a wrapper that reaches the inventory check.
IsTriggerStep == triggers' = triggers + 1

\* C1: over any sequence of triggers the store is listed exactly once, by
\* the first trigger; a later trigger lists nothing and leaves the snapshot,
\* the statistics and the done flag as they were.
C1_ListingExactlyOnce ==
    [][ /\ list_calls' = (IF triggers' >= 1 THEN 1 ELSE 0)
        /\ (IsTriggerStep /\ triggers >= 1) =>
              /\ UNCHANGED << bulk_cache, cache_stats, inventory_done,
                              list_calls >>
              /\ last'.listed = 0 ]_vars

C1_Witness ==
    /\ triggers = 2
    /\ list_calls = 1
    /\ last.op \in WrapperOps
    /\ last.was_done
    /\ last.listed = 0

\* C2: after a listing that failed the cache is Populated with an empty
\* snapshot, the listing is never retried, every query returns exactly what
\* the original method reports, and the wrapper that ran the listing let no
\* exception out.
C2_FailedListingDegrades ==
    list_failures >= 1 =>
        /\ inventory_done
        /\ bulk_cache = EmptyCache
        /\ list_calls = 1
        /\ last.op \in WrapperOps => (~last.escaped /\ last.orig = 1)
        /\ last.op \in QueryOps => last.fallback = << last.result >>

C2_Witness ==
    /\ list_failures = 1
    /\ triggers = 2
    /\ last.op = "size"
    /\ last.result = SizeValue(7)

\* C3: the hit counter equals the number of exists and size queries that
\* found their path in the snapshot, and the miss counter the number that
\* did not.
C3_HitMissAccounting ==
    /\ cache_stats.cache_hits = q_found
    /\ cache_stats.cache_misses = q_missing

\* C4: with concurrent callers of the wrappers the store is listed at most
\* once, and a caller that reached the inventory check enters the original
\* code only with the cache Populated.
C4_SingleFlight ==
    /\ list_calls <= 1
    /\ \A t \in Threads :
          (pc[t] = "original" /\ local[t].detected) => inventory_done

\* C5: every key registered for a listed object is in the snapshot with
\* exists = TRUE, no entry has exists = FALSE, an exists query for a key in
\* the snapshot returns TRUE without the original method, and one for a key
\* not in it returns what the original method does.
C5_ExistsFromSnapshot ==
    /\ \A b \in installed_blobs : KeyForms(b.name) \subseteq DOMAIN bulk_cache
    /\ \A k \in DOMAIN bulk_cache : bulk_cache[k].exists = TRUE
    /\ last.op = "exists" =>
          IF last.path \in DOMAIN bulk_cache
          THEN last.result = BoolValue(TRUE) /\ last.fallback = << >>
          ELSE last.fallback = << last.result >>

C5_Witness ==
    /\ last.op = "exists"
    /\ last.path = SnakemakePath(BlobName(1))
    /\ last.path \in DOMAIN bulk_cache
    /\ last.result = BoolValue(TRUE)
    /\ q_missing = 1

\* C6: for each object either all three key forms are in the snapshot or
\* none is, and for a listed object exists and size under any of the three
\* forms are hits with the listed object's values.
C6_MultiKeyConsistency ==
    /\ \A n \in QueryNames :
          \/ KeyForms(n) \subseteq DOMAIN bulk_cache
          \/ KeyForms(n) \cap DOMAIN bulk_cache = {}
    /\ \A b \in installed_blobs : \A k \in KeyForms(b.name) :
          /\ patched_iofile_exists(Globals, k, Raises).result = BoolValue(TRUE)
          /\ patched_iofile_exists(Globals, k, Raises).fallback = << >>
          /\ patched_iofile_size(Globals, k, Raises).result = SizeValue(b.size)
          /\ patched_iofile_size(Globals, k, Raises).fallback = << >>
    /\ (last.op = "size" /\ last.fallback = << >>) =>
          \E b \in installed_blobs :
             last.path \in KeyForms(b.name) /\ last.result = SizeValue(b.size)

C6_Witness ==
    /\ Cardinality(installed_blobs) = 2
    /\ last.op = "size"
    /\ last.path = LocalPath(BlobName(2))
    /\ last.result = SizeValue(20)

\* C7: an exists or size query leaves the snapshot as it was, whether it
\* hits or misses and whatever the original method returns, so a key that
\* missed is still missing after the query.
C7_NoWriteBack ==
    [][ IsQueryStep =>
          /\ bulk_cache' = bulk_cache
          /\ last'.fallback # << >> => last'.path \notin DOMAIN bulk_cache' ]_vars

C7_Witness ==
    /\ inventory_done
    /\ installed_blobs # {}
    /\ q_missing = 2
    /\ last.op = "exists"
    /\ last.fallback = << BoolValue(TRUE) >>
    /\ last.path \notin DOMAIN bulk_cache

\* C8: with the disable flag set the import leaves the host process
\* running, no listing is ever made and every query goes to the original
\* method.
C8_DisabledPassThrough ==
    (PATCH_DISABLED /\ host # "loading") =>
        /\ host = "running"
        /\ list_calls = 0
        /\ last.op \in QueryOps => last.fallback = << last.result >>

C10_FailureGivesEmptySnapshot ==
    [][ list_failures' = list_failures + 1 =>
          /\ bulk_cache' = EmptyCache
          /\ cache_stats' = cache_stats
          /\ ~last'.escaped
          /\ inventory_done' ]_vars

C10_Witness ==
    /\ last.failed
    /\ last.iterated >= 1
    /\ bulk_cache = EmptyCache
    /\ inventory_done
    /\ cache_stats.inventory_calls = 0

\* C11: an exception of the original method on a miss leaves the query as
\* that same exception; the snapshot and the done flag stay as they were and
\* the patched methods stay installed in the running host.
C11_FallbackFailurePropagates ==
    [][ (IsQueryStep /\ last'.fallback # << >> /\ last'.fallback[1].raised) =>
          /\ last'.result = last'.fallback[1]
          /\ last'.escaped
          /\ bulk_cache' = bulk_cache
          /\ inventory_done' = inventory_done
          /\ host' = "running" ]_vars

C11_Witness ==
    /\ last.op = "size"
    /\ last.fallback = << RaisesOther >>
    /\ last.result = RaisesOther
    /\ q_missing = 2
    /\ installed_blobs # {}

\* C13: a bucket or prefix that cannot be used is reported when the module
\* is imported: the import does not leave the patch installed in a running
\* host, and no listing is attempted with it.
C13_ConfigErrorAtConstruction ==
    (~config_valid /\ host # "loading") =>
        /\ host # "running"
        /\ list_calls = 0

\* The coroutine is that of the function update_input_sizes: the last part
\* of its qualified name is that name.
IsUpdateInputSizes(coroutine) ==
    /\ coroutine # << >>
    /\ coroutine[Len(coroutine)] = "update_input_sizes"

\* C16: a call of the patched async_run with a coroutine that is not
\* update_input_sizes starts no inventory: the done flag, the snapshot and
\* the statistics stay as they were and the original is called.
C16_OtherCoroutineOnlyDelegates ==
    [][ ( /\ n_calls' = n_calls + 1
          /\ last'.op = "async_run"
          /\ ~IsUpdateInputSizes(last'.coroutine) ) =>
            /\ UNCHANGED << bulk_cache, cache_stats, inventory_done,
                            list_calls >>
            /\ last'.listed = 0
            /\ last'.orig = 1 ]_vars

\* C14: when a wrapper enters the original job_selector, or the original
\* async_run with an update_input_sizes coroutine, an inventory has been
\* attempted and has completed: the done flag is true and the snapshot the
\* listing produced is installed.
C14_InventoryBeforeOriginal ==
    [][ ( /\ n_calls' = n_calls + 1
          /\ last'.orig >= 1
          /\ \/ last'.op = "job_selector"
             \/ last'.op = "async_run" /\ IsUpdateInputSizes(last'.coroutine) ) =>
            /\ inventory_done'
            /\ list_calls' >= 1
            /\ ~last'.escaped
            /\ DOMAIN bulk_cache' =
                 UNION { KeyForms(b.name) : b \in installed_blobs' }
            /\ \A b \in installed_blobs' :
                 \A k \in KeyForms(b.name) : bulk_cache'[k] = FileInfo(b) ]_vars

C14_Witness ==
    /\ last.op = "async_run"
    /\ IsUpdateInputSizes(last.coroutine)
    /\ last.listed = 1
    /\ ~last.was_done
    /\ last.orig = 1
    /\ inventory_done
    /\ Cardinality(installed_blobs) = 2

\* C15: every call of a wrapper calls the original exactly once, with the
\* argument the wrapper was given, and ends as the original ended (its value
\* or its exception), whether the call ran a listing that succeeded, ran one
\* that failed, or ran none.
C15_WrapperCallsOriginalOnce ==
    last.op \in WrapperOps =>
        /\ Len(last.fallback) = 1
        /\ last.orig = 1
        /\ last.orig_args = last.coroutine
        /\ last.result = last.fallback[1]
        /\ ~last.escaped

C15_Witness ==
    /\ last.op = "job_selector"
    /\ last.listed = 1
    /\ last.failed
    /\ last.orig = 1
    /\ last.result = ResultValue(1)
    /\ n_calls = 1

\* C17: the run counter is 0 or 1; it is 1 exactly when a listing has
\* completed without error; when the only listings were failed ones it is 0
\* with the inventory done, and the exit handler prints no report.
C17_RunCounterCountsSuccess ==
    /\ cache_stats.inventory_calls \in { 0, 1 }
    /\ cache_stats.inventory_calls = 1 <=> list_calls > list_failures
    /\ (inventory_done /\ list_calls = list_failures) =>
           /\ cache_stats.inventory_calls = 0
           /\ ~print_statistics(cache_stats).printed

\* C12: no increment of a counter is lost: when no lookup is under way the
\* hit and miss counters add up to the number of exists lookups issued.
C12_NoLostIncrement ==
    (\A t \in Threads : pc[t] = "idle") =>
        cache_stats.cache_hits + cache_stats.cache_misses = q_found + q_missing

\* C18: a hit counter above zero means that one successful inventory has
\* run (the run counter is 1 and the snapshot is not empty); and an exists
\* lookup that starts while the snapshot is empty, before any inventory or
\* after a failed one, takes the miss path, which counts a miss and awaits
\* the original.
C18_HitsNeedSuccessfulInventory ==
    [][ /\ cache_stats'.cache_hits > 0 =>
              /\ cache_stats'.inventory_calls = 1
              /\ bulk_cache' # EmptyCache
        /\ \A t \in Threads :
              (pc[t] = "idle" /\ pc'[t] = "add_one" /\ bulk_cache = EmptyCache) =>
                  local'[t].counter = "cache_misses" ]_vars

=============================================================================
